---- MODULE Spec2Model ----
(***************************************************************************)
(* passwd-rs: src/lib.rs.  Passwd::from_name and Passwd::from_uid call the  *)
(* reentrant libc primitives getpwnam_r / getpwuid_r with a scratch buffer  *)
(* sized by sysconf(_SC_GETPW_R_SIZE_MAX) and copy the matched entry out of *)
(* the buffer into an owned Passwd value.                                   *)
(*                                                                          *)
(* Strings are byte sequences (a Rust str / String is its UTF-8 bytes, a C  *)
(* string is bytes up to a terminating 0).  Memory is explicit: each call   *)
(* owns one scratch buffer and one struct passwd; pointers are              *)
(* (buffer, offset) pairs.                                                  *)
(***************************************************************************)
EXTENDS Integers, Sequences, FiniteSets, TLC

\* ------------------------------------------------------------------ bounds
NumThreads == 2
MaxDb == 2

Threads == 1..NumThreads

\* --------------------------------------------------------- program constants
\* lib.rs:101  the fallback capacity
DefaultSize == 512

\* ------------------------------------------------------------ byte strings
RECURSIVE HasNul(_)
\* memchr(0, bytes) of CString::new (lib.rs:60)
HasNul(s) == IF s = <<>> THEN FALSE
             ELSE IF Head(s) = 0 THEN TRUE ELSE HasNul(Tail(s))

RECURSIVE StrLen(_, _)
\* strlen of CStr::from_ptr: the number of bytes of `data` from 1-based
\* position `from` up to (not including) the first 0; reading stops at the
\* end of the initialised bytes when no terminator is found.
StrLen(data, from) ==
    IF from > Len(data) \/ from < 1 THEN 0
    ELSE IF data[from] = 0 THEN 0
    ELSE 1 + StrLen(data, from + 1)

Slice(data, from, len) ==
    LET hi == IF from + len - 1 > Len(data) THEN Len(data) ELSE from + len - 1
    IN  IF from < 1 THEN <<>> ELSE SubSeq(data, from, hi)

IsCont(b) == b >= 128 /\ b <= 191

RECURSIVE Utf8Valid(_)
\* core::str::from_utf8 as used by CStr::to_str (lib.rs:43): well-formed
\* UTF-8 per the Unicode table of well-formed byte sequences.
Utf8Valid(s) ==
    IF s = <<>> THEN TRUE
    ELSE LET b == s[1]
             n == Len(s)
             Rest(k) == SubSeq(s, k + 1, n)
         IN  IF b < 128 THEN Utf8Valid(Rest(1))
             ELSE IF b >= 194 /\ b <= 223
                  THEN n >= 2 /\ IsCont(s[2]) /\ Utf8Valid(Rest(2))
             ELSE IF b = 224
                  THEN n >= 3 /\ s[2] >= 160 /\ s[2] <= 191 /\ IsCont(s[3])
                       /\ Utf8Valid(Rest(3))
             ELSE IF (b >= 225 /\ b <= 236) \/ b = 238 \/ b = 239
                  THEN n >= 3 /\ IsCont(s[2]) /\ IsCont(s[3]) /\ Utf8Valid(Rest(3))
             ELSE IF b = 237
                  THEN n >= 3 /\ s[2] >= 128 /\ s[2] <= 159 /\ IsCont(s[3])
                       /\ Utf8Valid(Rest(3))
             ELSE IF b = 240
                  THEN n >= 4 /\ s[2] >= 144 /\ s[2] <= 191 /\ IsCont(s[3])
                       /\ IsCont(s[4]) /\ Utf8Valid(Rest(4))
             ELSE IF b >= 241 /\ b <= 243
                  THEN n >= 4 /\ IsCont(s[2]) /\ IsCont(s[3]) /\ IsCont(s[4])
                       /\ Utf8Valid(Rest(4))
             ELSE IF b = 244
                  THEN n >= 4 /\ s[2] >= 128 /\ s[2] <= 143 /\ IsCont(s[3])
                       /\ IsCont(s[4]) /\ Utf8Valid(Rest(4))
             ELSE FALSE

\* ------------------------------------------------------ the account database
\* An entry of the account database, as the OS holds it (raw bytes).
Entry(n, p, u, g, ge, d, s) ==
    [name |-> n, passwd |-> p, uid |-> u, gid |-> g, gecos |-> ge,
     dir |-> d, shell |-> s]

\* "r":x:0:0::/:s
Root == Entry(<<114>>, <<120>>, 0, 0, <<>>, <<47>>, <<115>>)
\* "t":x:0:0::/:c        a second account with uid 0
Toor == Entry(<<116>>, <<120>>, 0, 0, <<>>, <<47>>, <<99>>)
\* "b":x:1:1:<0xFF>:/:s  a gecos that is not UTF-8 (Latin-1)
Bob  == Entry(<<98>>, <<120>>, 1, 1, <<255>>, <<47>>, <<115>>)
\* "e-acute":x:2:1:aaaa:/:s   a two-byte name, a longer gecos
Zoe  == Entry(<<195, 169>>, <<120>>, 2, 1, <<97, 97, 97, 97>>, <<47>>, <<115>>)

Accounts == {Root, Toor, Bob, Zoe}

RECURSIVE SeqsUpTo(_, _)
\* the sequences without repetition over S of length at most n
SeqsUpTo(S, n) ==
    IF n = 0 THEN {<<>>}
    ELSE LET shorter == SeqsUpTo(S, n - 1)
         IN  shorter \cup
             {Append(s, e) : s \in {x \in shorter : Len(x) = n - 1},
                             e \in S}

NoRepeat(s) == \A i, j \in 1..Len(s) : i # j => s[i] # s[j]

Databases == {s \in SeqsUpTo(Accounts, MaxDb) : NoRepeat(s)}

\* what sysconf(_SC_GETPW_R_SIZE_MAX) may report: -1 (indeterminate), 0, 12
SysconfValues == {-1, 0, 12}

\* the arguments callers pass
\* "r", "t", "b", e-acute, "q" (no such account), "r\0x" (embedded nul)
QueryNames == {<<114>>, <<116>>, <<98>>, <<195, 169>>, <<113>>, <<114, 0, 120>>}
QueryUids == {0, 1, 2, 7}

\* ------------------------------------------------------------------ memory
\* A pointer into a scratch buffer: buffer id and 1-based byte position.
\* Buffer id 0 is the null pointer.
NULL == [buf |-> 0, off |-> 0]

\* A buffer that is not allocated (before Vec::with_capacity, after drop).
Dead == [live |-> FALSE, cap |-> 0, data |-> <<>>]

\* std::mem::zeroed::<libc::passwd>()  (lib.rs:62, lib.rs:82)
ZeroPwd == [pw_name |-> NULL, pw_passwd |-> NULL, pw_uid |-> 0, pw_gid |-> 0,
            pw_gecos |-> NULL, pw_dir |-> NULL, pw_shell |-> NULL]

\* the initialised bytes of buffer b
Mem(h, b) == IF b \in DOMAIN h THEN h[b].data ELSE <<>>

VARIABLES
    db,        \* the account database: a sequence of entries (file order)
    sizeMax,   \* what sysconf(_SC_GETPW_R_SIZE_MAX) reports on this system
    android,   \* the build: cfg(target_os = "android")
    heap,      \* the scratch buffers, by buffer id
    pwds,      \* the struct passwd locals, by id
    pc,        \* each thread's position: idle, call, check, ret, panicked
    q,         \* each thread's current query
    c_user,    \* each call's CString (bytes with the terminator)
    result,    \* each call's `result` pointer: 0 is null, else a pwds id
    ret,       \* the primitive's return code, which the code discards
    buflen,    \* the capacity argument of the call's last primitive call
    nsys,      \* sysconf queries made by the current call
    ncall,     \* primitive calls made by the current call
    out,       \* what the call evaluates to
    first      \* a round trip's first record (the caller's variable)

vars == <<db, sizeMax, android, heap, pwds, pc, q, c_user, result, ret,
          buflen, nsys, ncall, out, first>>

\* ------------------------------------------------------------ pure helpers
\* a variant of getpw_r_size_max whose guard is `n <= 0`
GetpwRSizeMaxLe(n) == IF n <= 0 THEN DefaultSize ELSE n

\* fn getpw_r_size_max() -> usize  (lib.rs:97-104).  Vec::with_capacity(n)
\* of a one-byte element type allocates exactly n, so buf.capacity() is
\* this value.
GetpwRSizeMax(n) == IF n < 0 THEN DefaultSize ELSE n

\* a variant of CString::new that does not look for a 0 byte
\* (CString::from_vec_unchecked)
CStringNewUnchecked(user) == [ok |-> TRUE, bytes |-> Append(user, 0)]

\* CString::new(user): Err(NulError) on any 0 byte, else the bytes with a
\* terminator appended  (lib.rs:60)
CStringNew(user) ==
    IF HasNul(user) THEN [ok |-> FALSE, bytes |-> <<>>]
    ELSE [ok |-> TRUE, bytes |-> Append(user, 0)]

\* the C string the primitive reads at c_user.as_ptr()
CName(c) == Slice(c, 1, StrLen(c, 1))

\* a variant in which every call uses one static buffer
BufShared(t) == 1

\* the local `buf` of a call by thread t / the local `pwd`  (lib.rs:62-63)
BufOf(t) == t
PwdOf(t) == t

\* ----------------------------------------------------- the OS primitive
\* the bytes the primitive needs in the caller's buffer for entry e
Layout(e, noGecos) ==
    e.name \o <<0>> \o e.passwd \o <<0>>
      \o (IF noGecos THEN <<>> ELSE e.gecos \o <<0>>)
      \o e.dir \o <<0>> \o e.shell \o <<0>>

\* the struct passwd the primitive fills for entry e laid out in buffer b
FillPwd(e, b, noGecos) ==
    LET o1 == 1
        o2 == o1 + Len(e.name) + 1
        o3 == o2 + Len(e.passwd) + 1
        o4 == IF noGecos THEN o3 ELSE o3 + Len(e.gecos) + 1
        o5 == o4 + Len(e.dir) + 1
    IN  [pw_name |-> [buf |-> b, off |-> o1],
         pw_passwd |-> [buf |-> b, off |-> o2],
         pw_uid |-> e.uid, pw_gid |-> e.gid,
         pw_gecos |-> IF noGecos THEN NULL ELSE [buf |-> b, off |-> o3],
         pw_dir |-> [buf |-> b, off |-> o4],
         pw_shell |-> [buf |-> b, off |-> o5]]

\* index of the first entry whose name is n / whose uid is u; 0 when none
FirstByName(d, n) ==
    LET hits == {i \in 1..Len(d) : d[i].name = n}
    IN  IF hits = {} THEN 0 ELSE CHOOSE i \in hits : \A j \in hits : i <= j

FirstByUid(d, u) ==
    LET hits == {i \in 1..Len(d) : d[i].uid = u}
    IN  IF hits = {} THEN 0 ELSE CHOOSE i \in hits : \A j \in hits : i <= j

\* a variant whose by-uid scan keeps the last matching entry
LookupIndexLast(d, query, c) ==
    IF query.op = "name" THEN FirstByName(d, CName(c))
    ELSE LET hits == {i \in 1..Len(d) : d[i].uid = query.uid}
         IN  IF hits = {} THEN 0 ELSE CHOOSE i \in hits : \A j \in hits : i >= j

\* the entry the call's primitive looks for: getpwnam_r(c_user.as_ptr(), ..)
\* in from_name (lib.rs:66), getpwuid_r(uid, ..) in from_uid (lib.rs:86);
\* both return the first matching entry
LookupIndex(d, query, c) ==
    IF query.op = "name" THEN FirstByName(d, CName(c))
    ELSE FirstByUid(d, query.uid)

\* getpwnam_r / getpwuid_r (lib.rs:66-70, lib.rs:86) on the entry at index i
\* (0: no such entry), writing through `pwd` and into buffer b of capacity
\* cap.  `fail`: the database could not be read (EIO and the like).
\* code: the return value; data: the buffer's bytes afterwards; pwd: the
\* struct afterwards; res: what *result is set to (0: null).
Getpw(d, i, b, p, cap, noGecos, fail, oldData, oldPwd) ==
    IF fail
    THEN [code |-> "EIO", data |-> oldData, pwd |-> oldPwd, res |-> 0]
    ELSE IF i = 0
    THEN [code |-> "OK", data |-> oldData, pwd |-> oldPwd, res |-> 0]
    ELSE IF Len(Layout(d[i], noGecos)) > cap
    THEN [code |-> "ERANGE", data |-> Slice(Layout(d[i], noGecos), 1, cap),
          pwd |-> oldPwd, res |-> 0]
    ELSE [code |-> "OK", data |-> Layout(d[i], noGecos),
          pwd |-> FillPwd(d[i], b, noGecos), res |-> p]

\* ------------------------------------------------- copying the entry out
\* CStr::from_ptr(p): a borrowed C string, its length found by strlen
CStrFromPtr(h, p) == [ptr |-> p, len |-> StrLen(Mem(h, p.buf), p.off)]

\* CStr::to_str(): Ok(&str) over the same bytes when they are UTF-8
ToStr(h, c) == [ok |-> Utf8Valid(Slice(Mem(h, c.ptr.buf), c.ptr.off, c.len)),
                ptr |-> c.ptr, len |-> c.len]

\* a variant of to_owned that keeps the borrowed bytes instead of copying
ToOwnedAlias(h, s) == [owned |-> FALSE, bytes |-> <<>>, ptr |-> s.ptr, len |-> s.len]

\* str::to_owned(): a String holding a copy of the bytes
ToOwned(h, s) ==
    [owned |-> TRUE, bytes |-> Slice(Mem(h, s.ptr.buf), s.ptr.off, s.len),
     ptr |-> NULL, len |-> 0]

\* String::new()  (lib.rs:51)
StringNew == [owned |-> TRUE, bytes |-> <<>>, ptr |-> NULL, len |-> 0]

\* the bytes a text value denotes in memory h
Text(h, f) == IF f.owned THEN f.bytes ELSE Slice(Mem(h, f.ptr.buf), f.ptr.off, f.len)

\* a Passwd value as its owner reads it in memory h
RecView(h, r) ==
    [name |-> Text(h, r.name), password |-> Text(h, r.password),
     uid |-> r.uid, gid |-> r.gid, gecos |-> Text(h, r.gecos),
     home_dir |-> Text(h, r.home_dir), shell |-> Text(h, r.shell)]

NoRec == [name |-> StringNew, password |-> StringNew, uid |-> 0, gid |-> 0,
          gecos |-> StringNew, home_dir |-> StringNew, shell |-> StringNew]

Pending == [kind |-> "Pending", err |-> "", rec |-> NoRec]
None == [kind |-> "None", err |-> "", rec |-> NoRec]
Some(r) == [kind |-> "Some", err |-> "", rec |-> r]
Panic(e) == [kind |-> "Panic", err |-> e, rec |-> NoRec]

\* variants of from_ptr: name read from pw_passwd; uid read from pw_gid;
\* fields taken without unwrap (a lossy decode that never fails)
FromPtrNameFromPasswd(h, pw, noGecos) ==
    LET F(p) == ToStr(h, CStrFromPtr(h, p))
        n == F(pw.pw_passwd)
        pa == F(pw.pw_passwd)
        ge == F(pw.pw_gecos)
        d == F(pw.pw_dir)
        s == F(pw.pw_shell)
    IN  IF n.ok /\ pa.ok /\ (noGecos \/ ge.ok) /\ d.ok /\ s.ok
        THEN Some([name |-> ToOwned(h, n), password |-> ToOwned(h, pa),
                   uid |-> pw.pw_uid, gid |-> pw.pw_gid,
                   gecos |-> IF noGecos THEN StringNew ELSE ToOwned(h, ge),
                   home_dir |-> ToOwned(h, d), shell |-> ToOwned(h, s)])
        ELSE Panic("Utf8Error")

FromPtrUidFromGid(h, pw, noGecos) ==
    LET F(p) == ToStr(h, CStrFromPtr(h, p))
        n == F(pw.pw_name)
        pa == F(pw.pw_passwd)
        ge == F(pw.pw_gecos)
        d == F(pw.pw_dir)
        s == F(pw.pw_shell)
    IN  IF n.ok /\ pa.ok /\ (noGecos \/ ge.ok) /\ d.ok /\ s.ok
        THEN Some([name |-> ToOwned(h, n), password |-> ToOwned(h, pa),
                   uid |-> pw.pw_gid, gid |-> pw.pw_gid,
                   gecos |-> IF noGecos THEN StringNew ELSE ToOwned(h, ge),
                   home_dir |-> ToOwned(h, d), shell |-> ToOwned(h, s)])
        ELSE Panic("Utf8Error")

FromPtrLossy(h, pw, noGecos) ==
    LET F(p) == ToStr(h, CStrFromPtr(h, p))
        Lossy(x) == IF x.ok THEN ToOwned(h, x) ELSE StringNew
    IN  Some([name |-> Lossy(F(pw.pw_name)), password |-> Lossy(F(pw.pw_passwd)),
              uid |-> pw.pw_uid, gid |-> pw.pw_gid,
              gecos |-> IF noGecos THEN StringNew ELSE Lossy(F(pw.pw_gecos)),
              home_dir |-> Lossy(F(pw.pw_dir)), shell |-> Lossy(F(pw.pw_shell))])

\* unsafe fn from_ptr(pwd) -> Passwd  (lib.rs:41-56): every text field is
\* CStr::from_ptr(..).to_str().unwrap().to_owned(); unwrap panics on the
\* first field that is not UTF-8.  On android gecos is String::new().
FromPtr(h, pw, noGecos) ==
    LET F(p) == ToStr(h, CStrFromPtr(h, p))
        n == F(pw.pw_name)
        pa == F(pw.pw_passwd)
        ge == F(pw.pw_gecos)
        d == F(pw.pw_dir)
        s == F(pw.pw_shell)
    IN  IF n.ok /\ pa.ok /\ (noGecos \/ ge.ok) /\ d.ok /\ s.ok
        THEN Some([name |-> ToOwned(h, n), password |-> ToOwned(h, pa),
                   uid |-> pw.pw_uid, gid |-> pw.pw_gid,
                   gecos |-> IF noGecos THEN StringNew ELSE ToOwned(h, ge),
                   home_dir |-> ToOwned(h, d), shell |-> ToOwned(h, s)])
        ELSE Panic("Utf8Error")

\* a variant with the null test inverted
OutcomeInverted(h, ps, res, noGecos) ==
    IF res # 0 THEN None ELSE FromPtr(h, ZeroPwd, noGecos)

\* if result.is_null() { None } else { Some(from_ptr(result)) }
\* (lib.rs:73-77, lib.rs:89-93)
Outcome(h, ps, res, noGecos) ==
    IF res = 0 THEN None ELSE FromPtr(h, ps[res], noGecos)

\* -------------------------------------------------------------------- Init
NoQuery == [op |-> "none", user |-> <<>>, uid |-> 0, rt |-> FALSE]

Init ==
    /\ db \in Databases
    /\ sizeMax \in SysconfValues
    /\ android \in BOOLEAN
    /\ heap = [b \in Threads |-> Dead]
    /\ pwds = [p \in Threads |-> ZeroPwd]
    /\ pc = [t \in Threads |-> "idle"]
    /\ q = [t \in Threads |-> NoQuery]
    /\ c_user = [t \in Threads |-> <<>>]
    /\ result = [t \in Threads |-> 0]
    /\ ret = [t \in Threads |-> "OK"]
    /\ buflen = [t \in Threads |-> 0]
    /\ nsys = [t \in Threads |-> 0]
    /\ ncall = [t \in Threads |-> 0]
    /\ out = [t \in Threads |-> Pending]
    /\ first = [t \in Threads |-> Pending]

\* ----------------------------------------------------------------- actions
\* lib.rs:62-64 and lib.rs:82-84: the locals of a call
Locals(t) ==
    /\ pwds' = [pwds EXCEPT ![PwdOf(t)] = ZeroPwd]
    /\ heap' = [heap EXCEPT ![BufOf(t)] =
                  [live |-> TRUE, cap |-> GetpwRSizeMax(sizeMax), data |-> <<>>]]
    /\ result' = [result EXCEPT ![t] = 0]
    /\ nsys' = [nsys EXCEPT ![t] = 1]
    /\ ncall' = [ncall EXCEPT ![t] = 0]
    /\ buflen' = [buflen EXCEPT ![t] = 0]
    /\ ret' = [ret EXCEPT ![t] = "OK"]
    /\ out' = [out EXCEPT ![t] = Pending]
    /\ pc' = [pc EXCEPT ![t] = "call"]

\* pub fn from_name(user: &str), lib.rs:59-64: CString::new(user).unwrap()
\* panics on an embedded nul before anything else happens; otherwise the
\* locals are set up.
FromName(t, user) ==
    /\ pc[t] = "idle"
    /\ q' = [q EXCEPT ![t] = [op |-> "name", user |-> user, uid |-> 0, rt |-> FALSE]]
    /\ first' = [first EXCEPT ![t] = Pending]
    /\ LET c == CStringNew(user)
       IN  IF c.ok
           THEN /\ c_user' = [c_user EXCEPT ![t] = c.bytes]
                /\ Locals(t)
           ELSE /\ out' = [out EXCEPT ![t] = Panic("NulError")]
                /\ pc' = [pc EXCEPT ![t] = "panicked"]
                /\ nsys' = [nsys EXCEPT ![t] = 0]
                /\ ncall' = [ncall EXCEPT ![t] = 0]
                /\ buflen' = [buflen EXCEPT ![t] = 0]
                /\ c_user' = [c_user EXCEPT ![t] = <<>>]
                /\ UNCHANGED <<heap, pwds, result, ret>>
    /\ UNCHANGED <<db, sizeMax, android>>

\* pub fn from_uid(uid), lib.rs:81-84
FromUid(t, uid) ==
    /\ pc[t] = "idle"
    /\ q' = [q EXCEPT ![t] = [op |-> "uid", user |-> <<>>, uid |-> uid, rt |-> FALSE]]
    /\ first' = [first EXCEPT ![t] = Pending]
    /\ c_user' = [c_user EXCEPT ![t] = <<>>]
    /\ Locals(t)
    /\ UNCHANGED <<db, sizeMax, android>>

\* a caller that holds the record of a from_name and calls from_uid with
\* the uid of that record
RoundTrip(t) ==
    /\ pc[t] = "idle"
    /\ q[t].op = "name"
    /\ out[t].kind = "Some"
    /\ q' = [q EXCEPT ![t] = [op |-> "uid", user |-> <<>>,
                              uid |-> out[t].rec.uid, rt |-> TRUE]]
    /\ first' = [first EXCEPT ![t] = out[t]]
    /\ c_user' = [c_user EXCEPT ![t] = <<>>]
    /\ Locals(t)
    /\ UNCHANGED <<db, sizeMax, android>>

\* a variant that grows the buffer and calls again on ERANGE
OsCallRetry(t) ==
    /\ pc[t] = "call"
    /\ \E fail \in BOOLEAN :
         LET b == BufOf(t)
             p == PwdOf(t)
             i == LookupIndex(db, q[t], c_user[t])
             r == Getpw(db, i, b, p, heap[b].cap, android, fail,
                        heap[b].data, pwds[p])
         IN  /\ heap' = [heap EXCEPT ![b] =
                           IF r.code = "ERANGE"
                           THEN [live |-> TRUE, cap |-> 2 * heap[b].cap + 16,
                                 data |-> <<>>]
                           ELSE [heap[b] EXCEPT !.data = r.data]]
             /\ pwds' = [pwds EXCEPT ![p] = r.pwd]
             /\ result' = [result EXCEPT ![t] = r.res]
             /\ ret' = [ret EXCEPT ![t] = r.code]
             /\ buflen' = [buflen EXCEPT ![t] = heap[b].cap]
             /\ pc' = [pc EXCEPT ![t] = IF r.code = "ERANGE" THEN "call" ELSE "check"]
    /\ ncall' = [ncall EXCEPT ![t] = ncall[t] + 1]
    /\ UNCHANGED <<db, sizeMax, android, q, c_user, nsys, out, first>>

\* lib.rs:65-71 and lib.rs:85-87: the one call of the primitive, with
\* buf.as_mut_ptr() and buf.capacity(); its return value is dropped.
OsCall(t) ==
    /\ pc[t] = "call"
    /\ \E fail \in BOOLEAN :
         LET b == BufOf(t)
             p == PwdOf(t)
             i == LookupIndex(db, q[t], c_user[t])
             r == Getpw(db, i, b, p, heap[b].cap, android, fail,
                        heap[b].data, pwds[p])
         IN  /\ heap' = [heap EXCEPT ![b].data = r.data]
             /\ pwds' = [pwds EXCEPT ![p] = r.pwd]
             /\ result' = [result EXCEPT ![t] = r.res]
             /\ ret' = [ret EXCEPT ![t] = r.code]
             /\ buflen' = [buflen EXCEPT ![t] = heap[b].cap]
    /\ ncall' = [ncall EXCEPT ![t] = ncall[t] + 1]
    /\ pc' = [pc EXCEPT ![t] = "check"]
    /\ UNCHANGED <<db, sizeMax, android, q, c_user, nsys, out, first>>

\* lib.rs:73-77 and lib.rs:89-93: the value of the call is computed while
\* the locals are still alive.
Finish(t) ==
    /\ pc[t] = "check"
    /\ out' = [out EXCEPT ![t] = Outcome(heap, pwds, result[t], android)]
    /\ pc' = [pc EXCEPT ![t] = "ret"]
    /\ UNCHANGED <<db, sizeMax, android, heap, pwds, q, c_user, result, ret,
                   buflen, nsys, ncall, first>>

\* lib.rs:78 and lib.rs:94: the end of the function body: buf, pwd and
\* c_user go out of scope (also when unwinding from a panic); the value, or
\* the panic, reaches the caller.
Return(t) ==
    /\ pc[t] = "ret"
    /\ heap' = [heap EXCEPT ![BufOf(t)] = Dead]
    /\ pwds' = [pwds EXCEPT ![PwdOf(t)] = ZeroPwd]
    /\ result' = [result EXCEPT ![t] = 0]
    /\ c_user' = [c_user EXCEPT ![t] = <<>>]
    /\ pc' = [pc EXCEPT ![t] = IF out[t].kind = "Panic" THEN "panicked" ELSE "idle"]
    /\ UNCHANGED <<db, sizeMax, android, q, ret, buflen, nsys, ncall, out, first>>

\* the account database is edited by someone else
DbChange ==
    /\ \E d \in Databases : d # db /\ db' = d
    /\ UNCHANGED <<sizeMax, android, heap, pwds, pc, q, c_user, result, ret,
                   buflen, nsys, ncall, out, first>>

\* the caller of the sequential program
Main == 1

\* one caller making one lookup after another
Next ==
    \/ \E user \in QueryNames : FromName(Main, user)
    \/ \E uid \in QueryUids : FromUid(Main, uid)
    \/ RoundTrip(Main)
    \/ OsCall(Main)
    \/ Finish(Main)
    \/ Return(Main)

Spec == Init /\ [][Next]_vars

\* one caller, and an account database that changes under it
NextDyn ==
    \/ \E user \in QueryNames : FromName(Main, user)
    \/ \E uid \in QueryUids : FromUid(Main, uid)
    \/ RoundTrip(Main)
    \/ OsCall(Main)
    \/ Finish(Main)
    \/ Return(Main)
    \/ DbChange

SpecDyn == Init /\ [][NextDyn]_vars

\* NumThreads callers making lookups concurrently
NextConc ==
    \/ \E t \in Threads, user \in QueryNames : FromName(t, user)
    \/ \E t \in Threads, uid \in QueryUids : FromUid(t, uid)
    \/ \E t \in Threads : RoundTrip(t)
    \/ \E t \in Threads : OsCall(t)
    \/ \E t \in Threads : Finish(t)
    \/ \E t \in Threads : Return(t)

SpecConc == Init /\ [][NextConc]_vars

\* ------------------------------------------------------------ properties
\* the call of thread t has returned to (or unwound into) its caller
Returned(t) == pc[t] \in {"idle", "panicked"} /\ q[t].op # "none"

\* the returned record, as the caller reads it now
Rec(t) == RecView(heap, out[t].rec)

\* the database entry the query of thread t designates (0: none)
Idx(t) == LookupIndex(db, q[t], Append(q[t].user, 0))

\* every text field the platform's struct passwd has is UTF-8
EntryTextOk(e) ==
    /\ Utf8Valid(e.name) /\ Utf8Valid(e.passwd)
    /\ (android \/ Utf8Valid(e.gecos))
    /\ Utf8Valid(e.dir) /\ Utf8Valid(e.shell)

\* the record that decoding entry e yields on this platform
Decoded(e) ==
    [name |-> e.name, password |-> e.passwd, uid |-> e.uid, gid |-> e.gid,
     gecos |-> IF android THEN <<>> ELSE e.gecos,
     home_dir |-> e.dir, shell |-> e.shell]

NameQuery(t) == Returned(t) /\ q[t].op = "name" /\ ~HasNul(q[t].user)

\* C1 as stated: from_name of a nul-free name present in the database
\* returns Some(record) with record.name = the name.
C1_AsStated ==
    \A t \in Threads :
        (NameQuery(t) /\ FirstByName(db, q[t].user) # 0)
            => (out[t].kind = "Some" /\ Rec(t).name = q[t].user)

\* C1 (amended): from_name of a nul-free name present in the database
\* returns Some(record) with record.name = the name, provided the one call
\* of the primitive succeeds (the entry fits the buffer, no OS error) and
\* every text field of the entry is valid UTF-8.
C1_FromNameFindsName ==
    \A t \in Threads :
        (/\ NameQuery(t)
         /\ FirstByName(db, q[t].user) # 0
         /\ ret[t] = "OK"
         /\ EntryTextOk(db[FirstByName(db, q[t].user)]))
            => (out[t].kind = "Some" /\ Rec(t).name = q[t].user)

C1_Witness ==
    \E t \in Threads :
        /\ NameQuery(t) /\ q[t].user = <<195, 169>>
        /\ out[t].kind = "Some" /\ Rec(t).name = <<195, 169>>

\* C2 as stated: from_uid of a uid present in the database returns
\* Some(record) with record.uid = the uid.
C2_AsStated ==
    \A t \in Threads :
        (Returned(t) /\ q[t].op = "uid" /\ FirstByUid(db, q[t].uid) # 0)
            => (out[t].kind = "Some" /\ Rec(t).uid = q[t].uid)

\* C2 (amended): from_uid of a uid present in the database returns
\* Some(record) with record.uid = the uid, provided the one call of the
\* primitive succeeds and every text field of the first entry with that uid
\* is valid UTF-8.
C2_FromUidFindsUid ==
    \A t \in Threads :
        (/\ Returned(t) /\ q[t].op = "uid"
         /\ FirstByUid(db, q[t].uid) # 0
         /\ ret[t] = "OK"
         /\ EntryTextOk(db[FirstByUid(db, q[t].uid)]))
            => (out[t].kind = "Some" /\ Rec(t).uid = q[t].uid)

C2_Witness ==
    \E t \in Threads :
        /\ Returned(t) /\ q[t].op = "uid" /\ q[t].uid = 2
        /\ out[t].kind = "Some" /\ Rec(t).uid = 2

\* the key of thread t's query equals no account's name / uid
NoSuchAccount(t) ==
    \/ q[t].op = "name" /\ \A i \in 1..Len(db) : db[i].name # q[t].user
    \/ q[t].op = "uid" /\ \A i \in 1..Len(db) : db[i].uid # q[t].uid

\* C3 as stated: a lookup whose key matches no account returns None, and
\* ends in no error and no panic.
C3_AsStated ==
    \A t \in Threads :
        (Returned(t) /\ NoSuchAccount(t)) => out[t].kind = "None"

\* C3 (amended): a lookup by uid, or by a name without an embedded nul,
\* whose key matches no account returns None, and ends in no error and no
\* panic.
C3_AbsentIsNone ==
    \A t \in Threads :
        (/\ Returned(t) /\ NoSuchAccount(t)
         /\ ~(q[t].op = "name" /\ HasNul(q[t].user)))
            => out[t].kind = "None"

C3_Witness ==
    /\ \E t \in Threads :
         /\ NameQuery(t) /\ q[t].user = <<113>> /\ ret[t] = "OK"
         /\ out[t].kind = "None"
    /\ Len(db) = MaxDb

\* C4 as stated: from_name of a name with an embedded nul fails with an
\* InvalidInput error, before any sysconf query or primitive call.
C4_AsStated ==
    \A t \in Threads :
        (Returned(t) /\ q[t].op = "name" /\ HasNul(q[t].user))
            => (/\ out[t].kind = "Err" /\ out[t].err = "InvalidInput"
                /\ nsys[t] = 0 /\ ncall[t] = 0)

\* C4 (amended): from_name of a name with an embedded nul panics (the
\* NulError of CString::new is unwrapped; the return type has no error
\* value), before any sysconf query or primitive call.
C4_NulPanicsBeforeOs ==
    \A t \in Threads :
        (Returned(t) /\ q[t].op = "name" /\ HasNul(q[t].user))
            => (/\ out[t].kind = "Panic" /\ out[t].err = "NulError"
                /\ nsys[t] = 0 /\ ncall[t] = 0 /\ pc[t] = "panicked")

C4_Witness ==
    \E t \in Threads :
        /\ Returned(t) /\ q[t].op = "name" /\ q[t].user = <<114, 0, 120>>
        /\ out[t].kind = "Panic" /\ FirstByName(db, <<114>>) # 0

\* C5 as stated: when the primitive reports a match with a text field that
\* is not decodable, the lookup ends in an error handed to the caller and
\* never a record; every record returned has all text fields decoded from
\* the matched entry.
C5_AsStated ==
    \A t \in Threads :
        /\ (pc[t] = "ret" /\ result[t] # 0 /\ ~EntryTextOk(db[Idx(t)]))
              => out[t].kind = "Err"
        /\ (Returned(t) /\ out[t].kind = "Some")
              => (Idx(t) # 0 /\ Rec(t) = Decoded(db[Idx(t)]))

\* C5 (amended): when the primitive reports a match with a text field that
\* is not decodable, the lookup panics (the Utf8Error is unwrapped) and
\* never returns a record; every record returned has all text fields
\* decoded from the matched entry (gecos is the empty string on android).
C5_AllOrNothing ==
    \A t \in Threads :
        /\ (pc[t] = "ret" /\ result[t] # 0 /\ ~EntryTextOk(db[Idx(t)]))
              => (out[t].kind = "Panic" /\ out[t].err = "Utf8Error")
        /\ (Returned(t) /\ Idx(t) # 0 /\ ret[t] = "OK" /\ ~EntryTextOk(db[Idx(t)]))
              => (out[t].kind = "Panic" /\ pc[t] = "panicked")
        /\ (Returned(t) /\ out[t].kind = "Some")
              => (Idx(t) # 0 /\ EntryTextOk(db[Idx(t)])
                  /\ Rec(t) = Decoded(db[Idx(t)]))

C5_Witness ==
    \E t \in Threads :
        /\ pc[t] = "panicked" /\ q[t].op = "uid" /\ q[t].uid = 1
        /\ out[t].kind = "Panic" /\ out[t].err = "Utf8Error"

\* the five fields the round trip compares
Five(r) == <<r.name, r.uid, r.gid, r.home_dir, r.shell>>

\* C6 as stated: from_name, then from_uid with the uid of the returned
\* record, gives a record with the same name, uid, gid, home_dir, shell.
C6_AsStated ==
    \A t \in Threads :
        (Returned(t) /\ q[t].rt /\ out[t].kind = "Some")
            => Five(Rec(t)) = Five(RecView(heap, first[t].rec))

\* C6 (amended): from_name, then from_uid with the uid of the returned
\* record: when no earlier entry of the database has that uid and the
\* primitive call of from_uid succeeds, from_uid returns a record with the
\* same name, uid, gid, home_dir, shell.
C6_RoundTrip ==
    \A t \in Threads :
        (/\ Returned(t) /\ q[t].rt /\ ret[t] = "OK"
         /\ FirstByUid(db, first[t].rec.uid)
              = FirstByName(db, RecView(heap, first[t].rec).name))
            => (/\ out[t].kind = "Some"
                /\ Five(Rec(t)) = Five(RecView(heap, first[t].rec)))

C6_Witness ==
    \E t \in Threads :
        /\ Returned(t) /\ q[t].rt /\ out[t].kind = "Some"
        /\ Rec(t).name = <<114>> /\ RecView(heap, first[t].rec).name = <<114>>
        /\ \E i \in 1..Len(db) : db[i] = Toor

\* C7: a returned record does not change when the call's buffer and struct
\* passwd are freed or reused, or when the account database changes:
\* while the caller holds the value, what it reads from it stays the same.
C7_RecordIndependent ==
    [][\A t \in Threads :
          /\ (out[t].kind = "Some" /\ out'[t] = out[t])
                => RecView(heap', out'[t].rec) = RecView(heap, out[t].rec)
          /\ (first[t].kind = "Some" /\ first'[t] = first[t])
                => RecView(heap', first'[t].rec) = RecView(heap, first[t].rec)]_vars

C7_Witness ==
    \E t \in Threads :
        /\ pc[t] = "idle" /\ out[t].kind = "Some"
        /\ heap[BufOf(t)] = Dead /\ pwds[PwdOf(t)] = ZeroPwd
        /\ Rec(t).name = <<114>> /\ Rec(t).shell = <<115>>
        /\ \A i \in 1..Len(db) : db[i].name # <<114>>

\* what the call of thread t evaluates to when it runs alone, on memory
\* of its own, with the same answer from the database
Alone(t) ==
    LET c == CStringNew(q[t].user)
        b == BufOf(t)
        p == PwdOf(t)
        r == Getpw(db, LookupIndex(db, q[t], c.bytes), b, p,
                   GetpwRSizeMax(sizeMax), android, ret[t] = "EIO",
                   <<>>, ZeroPwd)
        h == [x \in {b} |-> [live |-> TRUE, cap |-> GetpwRSizeMax(sizeMax),
                             data |-> r.data]]
        ps == [x \in {p} |-> r.pwd]
    IN  IF q[t].op = "name" /\ ~c.ok THEN Panic("NulError")
        ELSE Outcome(h, ps, r.res, android)

\* C8: with callers running concurrently against an unchanging database,
\* the buffer and struct a call reads are the ones its own primitive call
\* filled, untouched by any other call, and the call returns what it
\* returns when run alone.
C8_Reentrant ==
    \A t \in Threads :
        /\ (pc[t] = "check" /\ result[t] # 0)
              => (/\ Idx(t) # 0
                  /\ result[t] = PwdOf(t)
                  /\ heap[BufOf(t)].live
                  /\ heap[BufOf(t)].data = Layout(db[Idx(t)], android)
                  /\ pwds[PwdOf(t)] = FillPwd(db[Idx(t)], BufOf(t), android))
        /\ (pc[t] \in {"ret", "idle", "panicked"} /\ q[t].op # "none")
              => (/\ out[t].kind = Alone(t).kind
                  /\ out[t].err = Alone(t).err
                  /\ Rec(t) = RecView(heap, Alone(t).rec))

C8_Witness ==
    \E t, u \in Threads :
        /\ t # u
        /\ pc[t] = "check" /\ result[t] # 0
        /\ pc[u] = "check" /\ result[u] # 0
        /\ Idx(t) # Idx(u)

\* C9: the capacity passed to the primitive is the sysconf value when that
\* is not negative, and 512 when it is negative; never a negative value.
C9_Capacity ==
    \A t \in Threads :
        ncall[t] > 0
            => (/\ sizeMax >= 0 => buflen[t] = sizeMax
                /\ sizeMax < 0 => buflen[t] = 512
                /\ buflen[t] >= 0)

C9_Witness ==
    \E t \in Threads : ncall[t] = 1 /\ sizeMax = -1 /\ buflen[t] = 512

\* C10 as stated: every lookup calls the primitive exactly once.
C10_AsStated ==
    \A t \in Threads : Returned(t) => ncall[t] = 1

\* C10 (amended): every lookup that gets past from_name's nul check (every
\* from_uid, every from_name of a nul-free name) calls the primitive exactly
\* once, with the sysconf-derived capacity, and never again; when that call
\* reports ERANGE the lookup returns None, also when the account exists.
C10_SingleAttempt ==
    \A t \in Threads :
        /\ ncall[t] <= 1
        /\ pc[t] \in {"call", "check", "ret"}
              => heap[BufOf(t)].cap = GetpwRSizeMax(sizeMax)
        /\ (Returned(t) /\ ~(q[t].op = "name" /\ HasNul(q[t].user)))
              => (/\ ncall[t] = 1 /\ nsys[t] = 1
                  /\ buflen[t] = GetpwRSizeMax(sizeMax)
                  /\ (ret[t] = "ERANGE" => out[t].kind = "None"))

C10_Witness ==
    \E t \in Threads :
        /\ Returned(t) /\ ret[t] = "ERANGE" /\ out[t].kind = "None"
        /\ Idx(t) # 0 /\ ncall[t] = 1 /\ sizeMax = 12

====
